---------------------------- MODULE Spec2Model ----------------------------
(***************************************************************************)
(* Model of ProjectLogic (src/project_logic.py): the event-type catalog    *)
(* builder get_filtered_event_types, get_unique_product_types and the      *)
(* event count aggregator get_network_event_counts with its manual         *)
(* endingBefore pagination, together with the callers in                   *)
(* src/project_ui.py that consume their results.                           *)
(*                                                                         *)
(* Python values are encoded as records:                                   *)
(*   None            [none |-> TRUE]                                       *)
(*   a str           [str |-> <<code points>>]                             *)
(*   a list / tuple  [pytype |-> "list" / "tuple", items |-> <<...>>]      *)
(*   a dict          a function from key strings to values                 *)
(*   a datetime      [date |-> day number, time |-> tick of the day]       *)
(* The Meraki API (list_networks, getNetworkEventsEventTypes,              *)
(* getNetworkEvents) is the environment: each reply is an input drawn      *)
(* from a small set.                                                       *)
(***************************************************************************)
EXTENDS Integers, Sequences, FiniteSets, TLC

VARIABLES
    hash_seed,      \* iteration order of Python sets in this process
    pc,             \* "idle", or "paging" inside get_network_event_counts
    call,           \* the last call: its operation and arguments
    ret,            \* the value the last call returned (NoRet while running)
    api,            \* what the API replied to list_networks / event types
    networks_list,  \* get_network_event_counts: reply of list_networks
    net_idx,        \* index in networks_list of the network being paged
    occurred_after, \* occurred_after_dt, fixed once per call
    ending_before_timestamp,
    loop_count,
    all_network_events_for_current_net,
    network_event_counts,
    requests,       \* history: the API requests of the call, with replies
    log             \* history: the warnings and errors logged by the call

vars == <<hash_seed, pc, call, ret, api, networks_list, net_idx,
          occurred_after, ending_before_timestamp, loop_count,
          all_network_events_for_current_net, network_event_counts,
          requests, log>>

--------------------------------------------------------------------------
(* Python values *)

None == [none |-> TRUE]

PyStr(codes) == [str |-> codes]

PyList(items) == [pytype |-> "list", items |-> items]

PyTuple(items) == [pytype |-> "tuple", items |-> items]

NoRet == [pytype |-> "running"]

\* a value that is not a dict (a str where a record was expected)
NotADict == [pytype |-> "str"]

IsDict(v) == "pytype" \notin DOMAIN v /\ "none" \notin DOMAIN v

\* dict.get(key): None when the key is absent
Get(d, key) == IF key \in DOMAIN d THEN d[key] ELSE None

\* truth value of a list, a tuple, a str or None ("if x:", "if not x:")
Truthy(v) ==
    IF v = None THEN FALSE
    ELSE IF "str" \in DOMAIN v THEN v.str # <<>>
    ELSE IF "iso" \in DOMAIN v THEN TRUE
    ELSE Len(v.items) > 0

\* str(v) of a str or None
NoneText == PyStr(<<78, 111, 110, 101>>)

PyStrOf(v) == IF v = None THEN NoneText ELSE v

\* a < b for Python str: code point by code point, a proper prefix first
RECURSIVE CodesLess(_, _)
CodesLess(a, b) ==
    IF b = <<>> THEN FALSE
    ELSE IF a = <<>> THEN TRUE
    ELSE IF Head(a) # Head(b) THEN Head(a) < Head(b)
    ELSE CodesLess(Tail(a), Tail(b))

StrLess(a, b) == CodesLess(a.str, b.str)

\* (a1, a2) < (b1, b2) for tuples of two str
KeyLess(k1, k2) ==
    \/ StrLess(k1[1], k2[1])
    \/ k1[1] = k2[1] /\ StrLess(k1[2], k2[2])

KeyLeq(k1, k2) == ~KeyLess(k2, k1)

\* the elements of a Python set in the order this process iterates them
RECURSIVE Enumerate(_)
Enumerate(S) ==
    IF S = {} THEN <<>>
    ELSE LET x == CHOOSE y \in S : TRUE
         IN  <<x>> \o Enumerate(S \ {x})

Reverse(seq) == [i \in 1..Len(seq) |-> seq[Len(seq) + 1 - i]]

SetIter(S, seed) == IF seed = 0 THEN Enumerate(S) ELSE Reverse(Enumerate(S))

--------------------------------------------------------------------------
(* The strings of the catalog: categories, types, descriptions *)

Unknown == PyStr(<<85, 110, 107, 110, 111, 119, 110>>)

EmptyStr == PyStr(<<>>)

CatA == PyStr(<<65>>)

CatLowerA == PyStr(<<97>>)

TypeX == PyStr(<<120>>)

TypeY == PyStr(<<121>>)

Desc1 == PyStr(<<49>>)

Desc2 == PyStr(<<50>>)

\* the event-type records a network may report
RawEventTypes ==
    << [category |-> CatA, type |-> TypeX, description |-> Desc1],
       [category |-> CatA, type |-> TypeX, description |-> Desc2],
       [category |-> CatLowerA, type |-> TypeX, description |-> Desc1],
       [type |-> TypeY, description |-> Desc1],
       [category |-> Unknown, type |-> TypeY, description |-> Desc1],
       [category |-> EmptyStr, type |-> TypeY, description |-> EmptyStr],
       [category |-> EmptyStr, type |-> TypeY],
       [category |-> CatA, type |-> TypeY, description |-> Desc1] >>

Ok(body) == [ok |-> TRUE, body |-> body]

Raise(error) == [ok |-> FALSE, error |-> error]

\* the replies of getNetworkEventsEventTypes
EventTypeReplies ==
    { Ok(<<>>),
      Ok(<<RawEventTypes[1]>>),
      Ok(<<RawEventTypes[2], RawEventTypes[1]>>),
      Ok(<<RawEventTypes[3], RawEventTypes[1]>>),
      Ok(<<RawEventTypes[8], RawEventTypes[1]>>),
      Ok(<<RawEventTypes[5], RawEventTypes[4]>>),
      Ok(<<RawEventTypes[4], RawEventTypes[6]>>),
      Ok(<<RawEventTypes[7], RawEventTypes[6]>>),
      Ok(<<RawEventTypes[2], NotADict, RawEventTypes[3]>>),
      Raise("APIError"),
      Raise("Exception") }

\* the category filters a caller passes (None: no filter)
CategoryFilters == {None, EmptyStr, CatA, CatLowerA, Unknown}

--------------------------------------------------------------------------
(* Networks *)

NetName1 == PyStr(<<110>>)

NetName2 == PyStr(<<109>>)

\* net.get('id') of a record without an id: None, encoded as the (equally
\* falsy) empty id
NoId == ""

Net1 == [id |-> "N1", name |-> NetName1, productTypes |-> <<"wireless">>]

Net2 == [id |-> "N2", name |-> NetName2,
         productTypes |-> <<"appliance", "wireless">>]

\* a network record without an id
NetNoId == [name |-> NetName1, productTypes |-> <<"wireless">>]

NetworkIds == {"N1", "N2"}

\* the replies of list_networks: the matching networks, in the API's order
NetworkReplies ==
    { Ok(<<>>), Ok(<<Net1>>), Ok(<<Net1, Net2>>), Ok(<<Net2, Net1>>),
      Ok(<<NetNoId, Net1>>), Ok(<<Net2, NetNoId>>), Raise("APIError") }

ProductTypes == {"wireless", "appliance"}

NetworkId(net) == IF "id" \in DOMAIN net THEN net.id ELSE NoId

\* the reply recorded for a request that was never sent
Unasked == Raise("unasked")

\* the ids of the networks of a list_networks reply that carry an id
IdsOf(nets) == {NetworkId(nets[i]) : i \in 1..Len(nets)} \ {NoId}

--------------------------------------------------------------------------
(* get_unique_product_types, lines 40-61 *)

RECURSIVE SortedStrings(_)
SortedStrings(S) ==
    IF S = {} THEN <<>>
    ELSE LET m == CHOOSE x \in S : \A y \in S : x = y \/ StrLess(x, y)
         IN  <<m>> \o SortedStrings(S \ {m})

ProductTypeText(p) ==
    IF p = "wireless" THEN PyStr(<<119>>) ELSE PyStr(<<97>>)

GetUniqueProductTypes(nets_reply) ==
    IF ~nets_reply.ok THEN PyList(<<>>)
    ELSE LET nets == nets_reply.body
             unique_product_types ==
                 UNION { {ProductTypeText(nets[i].productTypes[j]) :
                             j \in 1..Len(nets[i].productTypes)} :
                         i \in {k \in 1..Len(nets) :
                                   "productTypes" \in DOMAIN nets[k]} }
         IN  PyList(SortedStrings(unique_product_types))

--------------------------------------------------------------------------
(* get_filtered_event_types, lines 63-146 *)

\* the early returns of lines 78, 86, 89, 93 and 97: "return [], []"
EmptyPair == PyTuple(<<PyList(<<>>), PyList(<<>>)>>)

\* line 111
EventTuple(event) ==
    <<Get(event, "category"), Get(event, "type"), Get(event, "description")>>

\* lines 110-112 for one reply body: event.get on an entry that is not a
\* dict raises, which ends this network (lines 116-118) with the tuples
\* added so far kept
RECURSIVE ReportedTuples(_)
ReportedTuples(body) ==
    IF body = <<>> THEN <<>>
    ELSE IF ~IsDict(Head(body)) THEN <<>>
    ELSE <<EventTuple(Head(body))>> \o ReportedTuples(Tail(body))

\* a failed request ends the loop over the networks: break for continue
RECURSIVE AddedTuplesUntilFailure(_, _, _)
AddedTuplesUntilFailure(nets, replies, i) ==
    IF i > Len(nets) THEN <<>>
    ELSE LET network_id == NetworkId(nets[i])
         IN  IF network_id = NoId
             THEN AddedTuplesUntilFailure(nets, replies, i + 1)
             ELSE IF ~replies[network_id].ok THEN <<>>
             ELSE ReportedTuples(replies[network_id].body)
                      \o AddedTuplesUntilFailure(nets, replies, i + 1)

\* lines 100-118: the tuples added, network after network; a network
\* without an id (103-105) or whose request fails (113-118) is skipped
RECURSIVE AddedTuples(_, _, _)
AddedTuples(nets, replies, i) ==
    IF i > Len(nets) THEN <<>>
    ELSE LET network_id == NetworkId(nets[i])
             mine == IF network_id = NoId THEN <<>>
                     ELSE IF ~replies[network_id].ok THEN <<>>
                     ELSE ReportedTuples(replies[network_id].body)
         IN  mine \o AddedTuples(nets, replies, i + 1)

Range(seq) == {seq[i] : i \in 1..Len(seq)}

\* a list in place of the set: every added tuple, duplicates included
IterEventTypesNoDedup(nets, replies, seed) == AddedTuples(nets, replies, 1)

\* lines 99, 112, 121: unique_event_types_set, as the for loop iterates it
IterEventTypes(nets, replies, seed) ==
    SetIter(Range(AddedTuples(nets, replies, 1)), seed)

\* lines 122-126
EventDefinition(event_tuple) ==
    [category    |-> IF event_tuple[1] # None THEN event_tuple[1] ELSE Unknown,
     type        |-> IF event_tuple[2] # None THEN event_tuple[2] ELSE Unknown,
     description |-> IF event_tuple[3] # None THEN event_tuple[3] ELSE EmptyStr]

\* the sort keys: of lines 131-134 (category, type), and of line 129
\* (category alone), whose result line 131 overwrites
SortKey(x, with_type) ==
    <<PyStrOf(IF "category" \in DOMAIN x THEN x.category ELSE EmptyStr),
      IF with_type
      THEN PyStrOf(IF "type" \in DOMAIN x THEN x.type ELSE EmptyStr)
      ELSE EmptyStr>>

\* sorted(): stable, an element goes before the first one with a larger key
RECURSIVE InsertByKey(_, _, _)
InsertByKey(sorted, x, with_type) ==
    IF sorted = <<>> THEN <<x>>
    ELSE IF KeyLess(SortKey(x, with_type), SortKey(Head(sorted), with_type))
         THEN <<x>> \o sorted
    ELSE <<Head(sorted)>> \o InsertByKey(Tail(sorted), x, with_type)

RECURSIVE SortedBy(_, _)
SortedBy(seq, with_type) ==
    IF seq = <<>> THEN <<>>
    ELSE InsertByKey(SortedBy(SubSeq(seq, 1, Len(seq) - 1), with_type),
                     seq[Len(seq)], with_type)

\* the result of line 129 alone: sorted by category only
SortByCategoryOnly(defs) == SortedBy(defs, FALSE)

\* lines 129-134: all_unique_event_definitions_sorted
SortDefinitions(defs) == SortedBy(defs, TRUE)

\* lines 137-146
FilterByCategory(defs, event_category) ==
    IF Truthy(event_category)
    THEN PyList(SelectSeq(defs, LAMBDA d : Get(d, "category") = event_category))
    ELSE PyList(defs)

GetFilteredEventTypes(dashboard, nets_reply, replies, event_category, seed) ==
    IF ~dashboard THEN EmptyPair
    ELSE IF ~nets_reply.ok THEN EmptyPair
    ELSE IF ~Truthy(PyList(nets_reply.body)) THEN EmptyPair
    ELSE LET tuples == IterEventTypes(nets_reply.body, replies, seed)
             all_unique_event_definitions ==
                 [i \in 1..Len(tuples) |-> EventDefinition(tuples[i])]
         IN  FilterByCategory(SortDefinitions(all_unique_event_definitions),
                              event_category)

--------------------------------------------------------------------------
(* Timestamps *)

\* the text "YYYY-MM-DDThh:mm:ssZ" of a datetime
IsoText(date, time) == [iso |-> [date |-> date, time |-> time]]

\* a str that is no ISO timestamp
BadTimestamp == PyStr(<<63>>)

\* datetime.fromisoformat(s.replace('Z', '+00:00')): ValueError on a str
\* that is no timestamp, AttributeError on None
FromIsoFormat(s) ==
    IF s = None THEN Raise("AttributeError")
    ELSE IF "iso" \in DOMAIN s THEN Ok(s.iso)
    ELSE Raise("ValueError")

\* the key kept at the precision of the timestamp, not cut to the day
StrfTimestamp(dt) == [ymd |-> dt.date, hms |-> dt.time]

\* dt.strftime('%Y-%m-%d')
StrfDate(dt) == [ymd |-> dt.date]

\* a <= b for datetimes
DtLeq(a, b) == a.date < b.date \/ (a.date = b.date /\ a.time <= b.time)

\* lines 171-175: now is [date, time, micro]; isoformat(timespec='seconds')
\* drops the microseconds, and the text is parsed back
OccurredAfterStr(now, days_lookback) ==
    IsoText(now.date - days_lookback, now.time)

OccurredAfterDt(now, days_lookback) ==
    FromIsoFormat(OccurredAfterStr(now, days_lookback)).body

--------------------------------------------------------------------------
(* Events and the replies of getNetworkEvents *)

PerPage == 1000

\* the requests of one call that carry a cursor are explored up to this many
MaxFollowUps == 2

\* a list of events is kept as runs: n consecutive equal events
Run(ev, n) == [ev |-> ev, n |-> n]

RECURSIVE ListLen(_)
ListLen(runs) ==
    IF runs = <<>> THEN 0 ELSE Head(runs).n + ListLen(Tail(runs))

EventTypeNames == {"wpa_auth", "other"}

EvAuthMorning == [occurredAt |-> IsoText(-1, 0), type |-> "wpa_auth"]

EvAuthEvening == [occurredAt |-> IsoText(-1, 1), type |-> "wpa_auth"]

EvOther == [occurredAt |-> IsoText(-2, 1), type |-> "other"]

EvNoOccurredAt == [type |-> "wpa_auth"]

EvNoType == [occurredAt |-> IsoText(-1, 0)]

EvBadTimestamp == [occurredAt |-> BadTimestamp, type |-> "wpa_auth"]

EvNoneTimestamp == [occurredAt |-> None, type |-> "other"]

TwoSameDay == <<Run(EvAuthMorning, 1), Run(EvAuthEvening, 1)>>

MixedBatch == <<Run(EvNoOccurredAt, 1), Run(EvOther, 1),
                Run(EvBadTimestamp, 1), Run(EvAuthMorning, 1)>>

AllMalformed == <<Run(NotADict, 1), Run(EvNoType, 1),
                  Run(EvNoneTimestamp, 1)>>

FullPage == <<Run(EvAuthEvening, PerPage)>>

\* the replies of getNetworkEvents
EventReplies ==
    { Ok([events |-> TwoSameDay]),
      Ok([events |-> FullPage]),
      Ok([events |-> AllMalformed]),
      Ok([events |-> TwoSameDay, pageStartAt |-> IsoText(-1, 1)]),
      Ok([events |-> MixedBatch, pageStartAt |-> IsoText(-2, 0)]),
      Ok([events |-> FullPage, pageStartAt |-> IsoText(-1, 1)]),
      Ok([events |-> <<>>, pageStartAt |-> IsoText(-1, 1)]),
      Ok([pageStartAt |-> IsoText(-2, 0)]),
      Ok([events |-> MixedBatch, pageStartAt |-> BadTimestamp]),
      Raise("APIError"),
      Raise("Exception") }

\* the arguments of get_network_event_counts
SelectedChoices == {<<>>, <<"wpa_auth">>, <<"wpa_auth", "other">>}

LookbackChoices == {0, 1, 2, 91}

NowChoices == {[date |-> 0, time |-> 0, micro |-> 7],
               [date |-> 0, time |-> 1, micro |-> 0]}

--------------------------------------------------------------------------
(* get_network_event_counts, lines 148-272 *)

PyDict(items) == [pytype |-> "dict", items |-> items]

\* a call that ended with an exception reaching the caller
Raised(error) == [pytype |-> "raised", error |-> error]

EmptyDict == <<>>

\* the first appearance of a type is stored as 0 and counted from the next
CountEventAfterFirst(day_counts, event_type) ==
    IF event_type \in DOMAIN day_counts
    THEN [day_counts EXCEPT ![event_type] = @ + 1]
    ELSE day_counts @@ (event_type :> 0)

\* lines 261-262 for one event: setdefault(event_type, 0), then += 1
CountEvent(day_counts, event_type) ==
    LET with_default == IF event_type \in DOMAIN day_counts
                        THEN day_counts
                        ELSE day_counts @@ (event_type :> 0)
    IN  [with_default EXCEPT ![event_type] = @ + 1]

\* lines 245-268 for one event: counts is network_event_counts[network_id]
FoldEvent(counts, event) ==
    IF ~IsDict(event) THEN counts
    ELSE IF "occurredAt" \notin DOMAIN event \/ "type" \notin DOMAIN event
         THEN counts
    ELSE LET parsed == FromIsoFormat(event.occurredAt)
         IN  IF ~parsed.ok THEN counts
             ELSE LET event_date_str == StrfDate(parsed.body)
                      day_counts == IF event_date_str \in DOMAIN counts
                                    THEN counts[event_date_str]
                                    ELSE EmptyDict
                  IN  (event_date_str :> CountEvent(day_counts, event.type))
                          @@ counts

\* the loop body over a run of n equal events: the first pass is FoldEvent,
\* each further pass adds 1 to the cell the first pass has left in place
FoldRun(counts, run) ==
    LET once == FoldEvent(counts, run.ev)
    IN  IF once = counts \/ run.n = 1 THEN once
        ELSE LET d == StrfDate(FromIsoFormat(run.ev.occurredAt).body)
             IN  [once EXCEPT ![d][run.ev.type] = @ + (run.n - 1)]

\* the loop ends at the first event that is not counted: break for continue
RECURSIVE FoldEventsUntilMalformed(_, _)
FoldEventsUntilMalformed(counts, runs) ==
    IF runs = <<>> THEN counts
    ELSE IF FoldEvent(counts, Head(runs).ev) = counts THEN counts
    ELSE FoldEventsUntilMalformed(FoldRun(counts, Head(runs)), Tail(runs))

\* lines 245-268: the for loop
RECURSIVE FoldEvents(_, _)
FoldEvents(counts, runs) ==
    IF runs = <<>> THEN counts
    ELSE FoldEvents(FoldRun(counts, Head(runs)), Tail(runs))

\* lines 240-270: the fold of one network's collected events
FoldNetwork(table, network_id, network_events) ==
    IF ListLen(network_events) > 0
    THEN (network_id :> FoldEvents(EmptyDict, network_events)) @@ table
    ELSE table


LogEntry(level, line, network_id) ==
    [level |-> level, line |-> line, network_id |-> network_id]

\* the break of line 228 left out: the loop goes on with the cursor unset
FullPageWithoutStart(extended, cursor, network_id) ==
    [stop |-> FALSE, events |-> extended, cursor |-> None, fetched |-> TRUE,
     logged |-> {LogEntry("warning", 227, network_id)}]

\* lines 219-228 for a full page: pageStartAt is missing and the page holds
\* PerPage events
FullPageBreak(extended, cursor, network_id) ==
    [stop |-> TRUE, events |-> extended, cursor |-> cursor, fetched |-> TRUE,
     logged |-> {LogEntry("warning", 227, network_id)}]

\* the pages collected so far are thrown away when a request fails
ErrorBreakDiscards(collected, cursor, error, network_id) ==
    [stop |-> TRUE, events |-> <<>>, cursor |-> cursor, fetched |-> FALSE,
     logged |-> {LogEntry("error", IF error = "APIError" THEN 234 ELSE 237,
                          network_id)}]

\* lines 233-238: the request raised; the error is logged and the loop
\* breaks with what was collected before
ErrorBreak(collected, cursor, error, network_id) ==
    [stop |-> TRUE, events |-> collected, cursor |-> cursor, fetched |-> FALSE,
     logged |-> {LogEntry("error", IF error = "APIError" THEN 234 ELSE 237,
                          network_id)}]

\* the boundary is tested before the page is added: the last page is lost
BoundaryBreakBeforeExtend(collected, current_page_events, cursor) ==
    [stop |-> TRUE, events |-> collected, cursor |-> cursor, fetched |-> TRUE,
     logged |-> {}]

\* lines 210-218: the page was added at line 210, then pageStartAt is found
\* at or before occurred_after_dt and the loop breaks
BoundaryBreak(collected, current_page_events, cursor) ==
    [stop |-> TRUE, events |-> collected \o current_page_events,
     cursor |-> cursor, fetched |-> TRUE, logged |-> {}]

\* the cursor is left as it was: the next request asks for the same page
CursorNotAdvanced(cursor, page_start_at_str) == cursor

\* line 231: ending_before_timestamp for the next iteration
NextCursor(cursor, page_start_at_str) == page_start_at_str

\* lines 193-238: one pass of the while loop, given the reply of the
\* request. stop: the loop breaks; events: all_network_events_for_current_net;
\* cursor: ending_before_timestamp; fetched: loop_count was incremented
PageOutcome(collected, cursor, reply, occurred_after_dt, network_id) ==
    IF ~reply.ok THEN ErrorBreak(collected, cursor, reply.error, network_id)
    ELSE
    LET response_data == reply.body
        current_page_events == IF "events" \in DOMAIN response_data
                               THEN response_data.events ELSE <<>>
        extended == collected \o current_page_events
        page_start_at_str == Get(response_data, "pageStartAt")
        page_start_at_dt == FromIsoFormat(page_start_at_str)
    IN  IF ListLen(current_page_events) = 0
        THEN [stop |-> TRUE, events |-> collected, cursor |-> cursor,
              fetched |-> TRUE, logged |-> {}]
        ELSE IF Truthy(page_start_at_str)
        THEN IF ~page_start_at_dt.ok
             THEN [stop |-> TRUE, events |-> extended, cursor |-> cursor,
                   fetched |-> TRUE,
                   logged |-> {LogEntry("error", 237, network_id)}]
             ELSE IF DtLeq(page_start_at_dt.body, occurred_after_dt)
             THEN BoundaryBreak(collected, current_page_events, cursor)
             ELSE [stop |-> FALSE, events |-> extended,
                   cursor |-> NextCursor(cursor, page_start_at_str),
                   fetched |-> TRUE, logged |-> {}]
        ELSE IF ListLen(current_page_events) < PerPage
        THEN [stop |-> TRUE, events |-> extended, cursor |-> cursor,
              fetched |-> TRUE, logged |-> {}]
        ELSE FullPageBreak(extended, cursor, network_id)

\* lines 180-185: the next network at or after index i that has an id
RECURSIVE NextNetwork(_, _)
NextNetwork(nets, i) ==
    IF i > Len(nets) THEN i
    ELSE IF NetworkId(nets[i]) = NoId THEN NextNetwork(nets, i + 1)
    ELSE i

\* the warnings of line 184 for the networks skipped from index i to j - 1
SkipWarnings(i, j) ==
    IF i < j THEN {LogEntry("warning", 184, NoId)} ELSE {}

--------------------------------------------------------------------------
(* State *)

NoCall == [op |-> "none"]

NoApi == [networks |-> Unasked, event_types |-> [id \in NetworkIds |-> Unasked]]

NoRequests == [list_networks |-> 0, getNetworkEvents |-> <<>>]

Init ==
    /\ hash_seed \in {0, 1}
    /\ pc = "idle"
    /\ call = NoCall
    /\ ret = NoRet
    /\ api = NoApi
    /\ networks_list = <<>>
    /\ net_idx = 0
    /\ occurred_after = None
    /\ ending_before_timestamp = None
    /\ loop_count = 0
    /\ all_network_events_for_current_net = <<>>
    /\ network_event_counts = EmptyDict
    /\ requests = NoRequests
    /\ log = {}

\* the locals of get_network_event_counts once it is not running
CountsLocalsCleared ==
    /\ networks_list' = <<>>
    /\ net_idx' = 0
    /\ occurred_after' = None
    /\ ending_before_timestamp' = None
    /\ loop_count' = 0
    /\ all_network_events_for_current_net' = <<>>
    /\ network_event_counts' = EmptyDict

--------------------------------------------------------------------------
(* Operations *)

\* get_unique_product_types(), lines 40-61
CallGetUniqueProductTypes ==
    /\ pc = "idle"
    /\ call = NoCall
    /\ \E nets_reply \in NetworkReplies :
          /\ call' = [op |-> "get_unique_product_types"]
          /\ api' = [NoApi EXCEPT !.networks = nets_reply]
          /\ requests' = [NoRequests EXCEPT !.list_networks = 1]
          /\ ret' = GetUniqueProductTypes(nets_reply)
    /\ log' = {}
    /\ CountsLocalsCleared
    /\ UNCHANGED <<hash_seed, pc>>

\* the replies the event-type requests of one call can get: one per network
\* of the list that has an id
EventTypeReplyMaps(nets_reply) ==
    LET asked == IF nets_reply.ok THEN IdsOf(nets_reply.body) ELSE {}
    IN  {m \in [NetworkIds -> EventTypeReplies \cup {Unasked}] :
            \A id \in NetworkIds : (m[id] = Unasked) <=> (id \notin asked)}

\* get_filtered_event_types(product_type, event_category), lines 63-146
CallGetFilteredEventTypes ==
    /\ pc = "idle"
    /\ call = NoCall
    /\ \E product_type \in ProductTypes, event_category \in CategoryFilters,
          dashboard \in BOOLEAN :
       \E nets_reply \in IF dashboard THEN NetworkReplies ELSE {Unasked} :
       \E replies \in EventTypeReplyMaps(nets_reply) :
          /\ call' = [op |-> "get_filtered_event_types",
                      dashboard |-> dashboard,
                      event_category |-> event_category]
          /\ api' = [networks |-> nets_reply, event_types |-> replies]
          /\ requests' = [NoRequests EXCEPT
                             !.list_networks = IF dashboard THEN 1 ELSE 0]
          /\ ret' = GetFilteredEventTypes(dashboard, nets_reply, replies,
                                          event_category, hash_seed)
    /\ log' = {}
    /\ CountsLocalsCleared
    /\ UNCHANGED <<hash_seed, pc>>


\* line 179 before the check of line 167
ListsNetworksBeforeCheck(dashboard, selected_event_types) == dashboard

\* lines 162-169: whether the call gets past its two early returns and
\* asks for the network list (line 179)
ListsNetworks(dashboard, selected_event_types) ==
    dashboard /\ Truthy(PyList(selected_event_types))

\* get_network_event_counts(product_type, selected_event_types,
\* days_lookback), lines 148-191: up to the first getNetworkEvents request
CallGetNetworkEventCounts ==
    /\ pc = "idle"
    /\ call = NoCall
    /\ \E dashboard \in BOOLEAN, selected_event_types \in SelectedChoices,
          days_lookback \in LookbackChoices, now \in NowChoices :
       \E nets_reply \in IF ListsNetworks(dashboard, selected_event_types)
                         THEN NetworkReplies ELSE {Unasked} :
          LET asked == nets_reply # Unasked
              nets == IF nets_reply.ok THEN nets_reply.body ELSE <<>>
              first == NextNetwork(nets, 1)
          IN  /\ call' = [op |-> "get_network_event_counts",
                          dashboard |-> dashboard,
                          selected_event_types |-> selected_event_types,
                          days_lookback |-> days_lookback,
                          now |-> now]
              /\ api' = [NoApi EXCEPT !.networks = nets_reply]
              /\ requests' = [NoRequests EXCEPT
                                 !.list_networks = IF asked THEN 1 ELSE 0]
              /\ log' = IF ~dashboard THEN {LogEntry("error", 164, NoId)}
                        ELSE IF ~asked THEN {LogEntry("warning", 168, NoId)}
                        ELSE SkipWarnings(1, first)
              /\ IF first > Len(nets)
                 THEN /\ pc' = "idle"
                      /\ ret' = IF asked /\ ~nets_reply.ok
                                THEN Raised(nets_reply.error)
                                ELSE PyDict(EmptyDict)
                      /\ CountsLocalsCleared
                 ELSE /\ pc' = "paging"
                      /\ ret' = NoRet
                      /\ networks_list' = nets
                      /\ net_idx' = first
                      /\ occurred_after' =
                             OccurredAfterDt(now, days_lookback)
                      /\ ending_before_timestamp' = None
                      /\ loop_count' = 0
                      /\ all_network_events_for_current_net' = <<>>
                      /\ network_event_counts' = EmptyDict
    /\ UNCHANGED hash_seed

\* the getNetworkEvents requests of the call sent with a cursor (line 199
\* with ending_before_timestamp set), the one being answered included
FollowUpsSent ==
    Cardinality({i \in 1..Len(requests.getNetworkEvents) :
                    requests.getNetworkEvents[i].endingBefore # None})
        + (IF ending_before_timestamp # None THEN 1 ELSE 0)

\* lines 192-272: the reply to one getNetworkEvents request arrives; when the
\* loop breaks, the network's events are folded and the next network with an
\* id starts, or the call returns
ReceiveNetworkEvents ==
    /\ pc = "paging"
    /\ \E reply \in EventReplies :
          LET network_id == NetworkId(networks_list[net_idx])
              out == PageOutcome(all_network_events_for_current_net,
                                 ending_before_timestamp, reply,
                                 occurred_after, network_id)
              table == FoldNetwork(network_event_counts, network_id,
                                   out.events)
              next == NextNetwork(networks_list, net_idx + 1)
          IN  /\ out.stop \/ FollowUpsSent < MaxFollowUps
              /\ requests' =
                    [requests EXCEPT !.getNetworkEvents =
                        Append(@, [network_id |-> network_id,
                                   endingBefore |-> ending_before_timestamp,
                                   reply |-> reply])]
              /\ IF ~out.stop
                 THEN /\ all_network_events_for_current_net' = out.events
                      /\ ending_before_timestamp' = out.cursor
                      /\ loop_count' = loop_count + 1
                      /\ log' = log \cup out.logged
                      /\ UNCHANGED <<pc, ret, networks_list, net_idx,
                                     occurred_after, network_event_counts>>
                 ELSE IF next > Len(networks_list)
                 THEN /\ pc' = "idle"
                      /\ ret' = PyDict(table)
                      /\ log' = log \cup out.logged
                                    \cup SkipWarnings(net_idx + 1, next)
                      /\ CountsLocalsCleared
                 ELSE /\ network_event_counts' = table
                      /\ net_idx' = next
                      /\ ending_before_timestamp' = None
                      /\ loop_count' = 0
                      /\ all_network_events_for_current_net' = <<>>
                      /\ log' = log \cup out.logged
                                    \cup SkipWarnings(net_idx + 1, next)
                      /\ UNCHANGED <<pc, ret, networks_list, occurred_after>>
    /\ UNCHANGED <<hash_seed, call, api>>

--------------------------------------------------------------------------
(* display_event_counts_graph, project_ui.py lines 385-524 *)

\* a second network with the name of the first
Net2Namesake == [id |-> "N2", name |-> NetName1,
                 productTypes |-> <<"wireless">>]

\* the replies of the list_networks request of line 397
GraphNetworkReplies ==
    { Ok(<<>>), Ok(<<Net1>>), Ok(<<Net1, Net2>>), Ok(<<Net1, Net2Namesake>>),
      Ok(<<Net2Namesake, Net1>>), Ok(<<NetNoId, Net1>>), Raise("APIError") }

\* the results of get_filtered_event_types(product_type, None) at line 431:
\* of a call that found no network, and of one that found N1 with one type
GraphCatalogs(seed) ==
    { GetFilteredEventTypes(TRUE, Ok(<<>>),
                            [id \in NetworkIds |-> Unasked], None, seed),
      GetFilteredEventTypes(TRUE, Ok(<<Net1>>),
                            [id \in NetworkIds |->
                                IF id = "N1" THEN Ok(<<RawEventTypes[1]>>)
                                ELSE Unasked],
                            None, seed) }

\* how many days after the call of get_network_event_counts line 424 reads
\* the clock
TodayOffsets == {0, 1}

\* the sum of f[x] over the set xs
RECURSIVE SumOver(_, _)
SumOver(f, xs) ==
    IF xs = {} THEN 0
    ELSE LET x == CHOOSE y \in xs : TRUE
         IN  f[x] + SumOver(f, xs \ {x})

\* line 398: net['id'] or net['name'] of a record without that key raises
NamesMapRaises(nets) ==
    \E i \in 1..Len(nets) :
        "id" \notin DOMAIN nets[i] \/ "name" \notin DOMAIN nets[i]

\* line 398: network_names_map[id]
NetworkNameOf(nets, id) ==
    LET last == CHOOSE i \in 1..Len(nets) :
                    /\ nets[i].id = id
                    /\ \A j \in (i + 1)..Len(nets) : nets[j].id # id
    IN  nets[last].name

\* line 402: the name of the map, or "Unknown Network (<id>)"
CurrentNetworkName(nets, network_id) ==
    IF \E i \in 1..Len(nets) : nets[i].id = network_id
    THEN NetworkNameOf(nets, network_id)
    ELSE [unknown_network |-> network_id]

\* line 406: pd.to_datetime(date_str).date()
ToDate(date_str) == date_str.ymd

\* lines 400-411: flat_data, one row per (network, day, type) of the table
FlatData(event_counts_data, nets) ==
    UNION { UNION { { [Date |-> ToDate(date_str),
                       NetworkID |-> network_id,
                       NetworkName |-> CurrentNetworkName(nets, network_id),
                       EventType |-> event_type,
                       Count |-> event_counts_data[network_id][date_str]
                                     [event_type]] :
                        event_type \in
                            DOMAIN event_counts_data[network_id][date_str] } :
                    date_str \in DOMAIN event_counts_data[network_id] } :
            network_id \in DOMAIN event_counts_data }

\* lines 424-426: the days from today - (days_lookback - 1) to today; none
\* when the start is after today
FullDateRange(today_date, days_lookback) ==
    [i \in 1..days_lookback |-> today_date - (days_lookback - 1) + (i - 1)]

\* lines 482-484: the counts of one network for one type, reindexed on the
\* axis with 0 for the days without a row
SeriesData(rows, network_id, target_event_type, full_date_range) ==
    [i \in 1..Len(full_date_range) |->
        LET hit == {r \in rows : /\ r.EventType = target_event_type
                                 /\ r.NetworkID = network_id
                                 /\ r.Date = full_date_range[i]}
        IN  IF hit = {} THEN 0 ELSE (CHOOSE r \in hit : TRUE).Count]

\* lines 481-485: network_series_data_map after the first k networks of
\* network_names_map; the series are stored under the network's name
RECURSIVE NetworkSeriesDataMap(_, _, _, _, _)
NetworkSeriesDataMap(rows, nets, k, target_event_type, full_date_range) ==
    IF k = 0 THEN <<>>
    ELSE (nets[k].name :> SeriesData(rows, nets[k].id, target_event_type,
                                     full_date_range))
         @@ NetworkSeriesDataMap(rows, nets, k - 1, target_event_type,
                                 full_date_range)

\* lines 501-504: total_event_counts_for_type
TotalEventCounts(series_map, full_date_range) ==
    [i \in 1..Len(full_date_range) |->
        SumOver([name \in DOMAIN series_map |-> series_map[name][i]],
                DOMAIN series_map)]

AnyPositive(series) == \E i \in 1..Len(series) : series[i] > 0

\* lines 445-522: the chart of one event type: the series drawn (487-499),
\* the total (501-504) and whether it is drawn (506)
ChartOf(rows, nets, target_event_type, full_date_range) ==
    LET series_map == NetworkSeriesDataMap(rows, nets, Len(nets),
                                           target_event_type, full_date_range)
        total == TotalEventCounts(series_map, full_date_range)
    IN  [series |-> [name \in {n \in DOMAIN series_map :
                                  AnyPositive(series_map[n])} |->
                        series_map[name]],
         total |-> total,
         total_drawn |-> AnyPositive(total)]

\* lines 435-441: ed.get on an entry that is no dict raises; the result
\* ([], []) of get_filtered_event_types holds two lists
DetailsMapRaises(all_event_definitions) ==
    \E i \in 1..Len(all_event_definitions.items) :
        ~IsDict(all_event_definitions.items[i])

\* display_event_counts_graph(product_type, event_counts_data, days_lookback,
\* display_title) with table for event_counts_data and catalog for
\* all_event_definitions: what it puts on the page, or the exception that
\* leaves it. The titles of the charts (lines 451-454) are not kept.
EventCountsGraph(table, days_lookback, nets_reply, today_date, catalog) ==
    IF ~nets_reply.ok THEN Raised(nets_reply.error)
    ELSE IF NamesMapRaises(nets_reply.body) THEN Raised("KeyError")
    ELSE LET nets == nets_reply.body
             rows == FlatData(table, nets)
             full_date_range == FullDateRange(today_date, days_lookback)
         IN  IF rows = {} THEN [pytype |-> "no_events"]
             ELSE IF DetailsMapRaises(catalog)
             THEN Raised("AttributeError")
             ELSE [pytype |-> "page",
                   axis |-> full_date_range,
                   charts |-> [t \in {r.EventType : r \in rows} |->
                                  ChartOf(rows, nets, t, full_date_range)]]

\* _generate_report_and_graph, lines 356-366: the table the call of
\* get_network_event_counts returned is handed to display_event_counts_graph,
\* which sends its list_networks request (line 397)
GenerateReportAndGraph ==
    /\ pc = "idle"
    /\ call.op = "get_network_event_counts"
    /\ ret.pytype = "dict"
    /\ pc' = "graph"
    /\ call' = [op |-> "display_event_counts_graph",
                event_counts_data |-> ret.items,
                days_lookback |-> call.days_lookback,
                counted_on |-> call.now.date]
    /\ ret' = NoRet
    /\ api' = NoApi
    /\ requests' = [NoRequests EXCEPT !.list_networks = 1]
    /\ log' = {}
    /\ UNCHANGED <<hash_seed, networks_list, net_idx, occurred_after,
                   ending_before_timestamp, loop_count,
                   all_network_events_for_current_net, network_event_counts>>

\* display_event_counts_graph, lines 397-524, from the reply of list_networks
\* on
DisplayEventCountsGraph ==
    /\ pc = "graph"
    /\ \E nets_reply \in GraphNetworkReplies, offset \in TodayOffsets,
          catalog \in GraphCatalogs(hash_seed) :
          /\ api' = [NoApi EXCEPT !.networks = nets_reply]
          /\ call' = [op |-> "display_event_counts_graph",
                      event_counts_data |-> call.event_counts_data,
                      days_lookback |-> call.days_lookback,
                      counted_on |-> call.counted_on,
                      today_date |-> call.counted_on + offset]
          /\ ret' = EventCountsGraph(call.event_counts_data,
                                     call.days_lookback, nets_reply,
                                     call.counted_on + offset, catalog)
    /\ pc' = "idle"
    /\ UNCHANGED <<hash_seed, requests, log, networks_list, net_idx,
                   occurred_after, ending_before_timestamp, loop_count,
                   all_network_events_for_current_net, network_event_counts>>

\* the caller is done with the returned value: every result is transient,
\* built per request and dropped once the UI has consumed it
DiscardResult ==
    /\ pc = "idle"
    /\ call # NoCall
    /\ call' = NoCall
    /\ ret' = NoRet
    /\ api' = NoApi
    /\ requests' = NoRequests
    /\ log' = {}
    /\ UNCHANGED <<hash_seed, pc, networks_list, net_idx, occurred_after,
                   ending_before_timestamp, loop_count,
                   all_network_events_for_current_net, network_event_counts>>

Next ==
    \/ DiscardResult
    \/ CallGetUniqueProductTypes
    \/ CallGetFilteredEventTypes
    \/ CallGetNetworkEventCounts
    \/ ReceiveNetworkEvents
    \/ GenerateReportAndGraph
    \/ DisplayEventCountsGraph

Spec == Init /\ [][Next]_vars

--------------------------------------------------------------------------
(* What the claims speak of *)

CountsReturned ==
    call.op = "get_network_event_counts" /\ pc = "idle" /\ ret.pytype = "dict"

CatalogReturned ==
    call.op = "get_filtered_event_types" /\ ret.pytype = "list"

\* the getNetworkEvents requests of the call for one network, in order
RequestsTo(id) ==
    SelectSeq(requests.getNetworkEvents, LAMBDA r : r.network_id = id)

ReplyEvents(reply) ==
    IF reply.ok /\ "events" \in DOMAIN reply.body
    THEN reply.body.events ELSE <<>>

\* every event of every page the API sent for one network
RECURSIVE EventsOfReplies(_)
EventsOfReplies(rs) ==
    IF rs = <<>> THEN <<>>
    ELSE ReplyEvents(Head(rs).reply) \o EventsOfReplies(Tail(rs))

FetchedEvents(id) == EventsOfReplies(RequestsTo(id))

\* a record with occurredAt and type whose occurredAt is a timestamp
IsValidEvent(e) ==
    /\ IsDict(e)
    /\ "occurredAt" \in DOMAIN e
    /\ "type" \in DOMAIN e
    /\ e.occurredAt # None
    /\ "iso" \in DOMAIN e.occurredAt

\* the number of valid events of a list on one day with one type
RECURSIVE ValidCount(_, _, _)
ValidCount(runs, day, type) ==
    IF runs = <<>> THEN 0
    ELSE (IF /\ IsValidEvent(Head(runs).ev)
             /\ Head(runs).ev.occurredAt.iso.date = day
             /\ Head(runs).ev.type = type
          THEN Head(runs).n ELSE 0)
         + ValidCount(Tail(runs), day, type)

Days == -3..0

\* table[id][day][type], 0 where there is no such cell
Cell(table, id, day, type) ==
    IF id \notin DOMAIN table THEN 0
    ELSE IF [ymd |-> day] \notin DOMAIN table[id] THEN 0
    ELSE IF type \notin DOMAIN table[id][[ymd |-> day]] THEN 0
    ELSE table[id][[ymd |-> day]][type]

\* the count table as far as it is built: the returned one after the call
CurrentTable ==
    IF pc = "paging" THEN network_event_counts
    ELSE IF ret.pytype = "dict" THEN ret.items
    ELSE EmptyDict

\* C1: every cell of the returned table equals the number of valid events,
\* over all pages fetched for that network, of that day and type (0 for a
\* missing cell); two events of one day at different times count 2.
C1_CountsEqualValidEvents ==
    CountsReturned =>
        \A id \in NetworkIds, day \in Days, type \in EventTypeNames :
            Cell(ret.items, id, day, type)
                = ValidCount(FetchedEvents(id), day, type)

\* a call whose only page for N1 held two events of day -1 at different
\* times, counted 2
C1_Witness ==
    /\ CountsReturned
    /\ Len(RequestsTo("N1")) = 1
    /\ ReplyEvents(RequestsTo("N1")[1].reply) = TwoSameDay
    /\ Cell(ret.items, "N1", -1, "wpa_auth") = 2

\* C2: with no selected event type the call returns the empty table and has
\* sent no request: neither list_networks nor getNetworkEvents.
C2_EmptySelectionShortCircuits ==
    (call.op = "get_network_event_counts"
        /\ call.selected_event_types = <<>>) =>
        /\ pc = "idle"
        /\ ret = PyDict(EmptyDict)
        /\ requests = NoRequests

C2_Witness ==
    /\ call.op = "get_network_event_counts"
    /\ call.dashboard
    /\ call.selected_event_types = <<>>
    /\ ret = PyDict(EmptyDict)
    /\ LogEntry("warning", 168, NoId) \in log

\* C3 as claimed: a network id is a key of the returned table only if a
\* valid event was fetched for it.
C3_KeyOnlyWithValidEvent ==
    CountsReturned =>
        \A id \in DOMAIN ret.items :
            \E day \in Days, type \in EventTypeNames :
                ValidCount(FetchedEvents(id), day, type) > 0

\* C4: every count of the table, while it is built and once returned, is at
\* least 1.
C4_CountsAtLeastOne ==
    \A id \in DOMAIN CurrentTable :
        \A d \in DOMAIN CurrentTable[id] :
            \A t \in DOMAIN CurrentTable[id][d] :
                CurrentTable[id][d][t] >= 1

\* a returned table built from a batch that mixes malformed and valid events
C4_Witness ==
    /\ CountsReturned
    /\ Len(RequestsTo("N2")) = 1
    /\ ReplyEvents(RequestsTo("N2")[1].reply) = MixedBatch
    /\ Cell(ret.items, "N2", -2, "other") = 1
    /\ Cell(ret.items, "N2", -1, "wpa_auth") = 1

\* C5 as claimed: when list_networks finds no matching network, each of the
\* three operations returns an empty list or an empty table, which its
\* caller sees as empty.
C5_NoNetworkGivesEmpty ==
    (pc = "idle" /\ call # NoCall /\ api.networks = Ok(<<>>)) =>
        /\ ret \in {PyList(<<>>), PyDict(EmptyDict)}
        /\ ret.pytype = "list" => ~Truthy(ret)

\* C6: the returned catalog, filtered or not, is sorted ascending by
\* (category, type): each entry's pair is <= the next entry's pair.
C6_CatalogSorted ==
    CatalogReturned =>
        \A i \in 1..(Len(ret.items) - 1) :
            KeyLeq(<<ret.items[i].category, ret.items[i].type>>,
                   <<ret.items[i + 1].category, ret.items[i + 1].type>>)

\* a catalog of three entries or more where two entries share the category
\* and differ in type
C6_Witness ==
    /\ CatalogReturned
    /\ Len(ret.items) >= 3
    /\ \E i \in 1..(Len(ret.items) - 1) :
          /\ ret.items[i].category = ret.items[i + 1].category
          /\ ret.items[i].type # ret.items[i + 1].type
    /\ \E i \in 1..(Len(ret.items) - 1) :
          ret.items[i].category # ret.items[i + 1].category

\* the catalog the same call returns without a category filter
UnfilteredCatalog ==
    GetFilteredEventTypes(call.dashboard, api.networks, api.event_types,
                          None, hash_seed)

\* C7 as claimed: with any supplied filter string c, the empty string
\* included, the result is exactly the entries of the unfiltered result
\* whose category equals c, in the same order.
C7_FilterIsExactSubset ==
    (CatalogReturned /\ call.event_category # None) =>
        ret.items = SelectSeq(UnfilteredCatalog.items,
                              LAMBDA d : d.category = call.event_category)

\* the raw triples network id reported: those of the records of its reply,
\* up to the first entry that is no record
ReportedBy(id) ==
    LET r == api.event_types[id]
    IN  IF ~r.ok THEN {}
        ELSE {EventTuple(r.body[i]) :
                 i \in {k \in 1..Len(r.body) :
                           \A j \in 1..k : IsDict(r.body[j])}}

AllReported == UNION {ReportedBy(id) : id \in NetworkIds}

EntriesEqualTo(d) == Cardinality({i \in 1..Len(ret.items) : ret.items[i] = d})

\* C8: each distinct (category, type, description) triple contributes
\* exactly one entry to the unfiltered catalog, however many networks report
\* it and in whatever order they are visited: the entries equal to a
\* definition are as many as the distinct reported triples it comes from.
C8_OneEntryPerReportedTriple ==
    (CatalogReturned /\ call.event_category = None) =>
        /\ Len(ret.items) = Cardinality(AllReported)
        /\ \A t \in AllReported :
              EntriesEqualTo(EventDefinition(t))
                  = Cardinality({u \in AllReported :
                                    EventDefinition(u) = EventDefinition(t)})

\* both networks report the triple (A, x, 1) and the catalog holds it once
C8_Witness ==
    /\ CatalogReturned
    /\ call.event_category = None
    /\ EventTuple(RawEventTypes[1]) \in ReportedBy("N1")
    /\ EventTuple(RawEventTypes[1]) \in ReportedBy("N2")
    /\ EntriesEqualTo(RawEventTypes[1]) = 1

\* every record the networks reported carries category, type and description
CompleteRecordsOnly ==
    \A id \in NetworkIds :
        LET r == api.event_types[id]
        IN  r.ok => \A i \in 1..Len(r.body) :
                       /\ IsDict(r.body[i])
                       /\ DOMAIN r.body[i] = {"category", "type", "description"}

\* C9 as claimed: no two entries of the returned catalog have the same type,
\* also when networks report one type with different categories or
\* descriptions (stated for replies whose records are complete).
C9_TypeIsUniqueKey ==
    (CatalogReturned /\ CompleteRecordsOnly) =>
        \A i, j \in 1..Len(ret.items) :
            ret.items[i].type = ret.items[j].type => i = j

\* a reply that is a full page without pageStartAt
FullPageNoStart(reply) ==
    /\ reply.ok
    /\ "pageStartAt" \notin DOMAIN reply.body
    /\ ListLen(ReplyEvents(reply)) = PerPage

\* C10: a network whose every request was answered with a full page and no
\* pageStartAt got exactly one request, the warning of line 227 is logged
\* for it, its pagination is over, and the events of that page are folded
\* into the table.
C10_FullPageWithoutStartStops ==
    \A id \in NetworkIds :
        LET rs == RequestsTo(id)
        IN  (Len(rs) >= 1 /\ \A i \in 1..Len(rs) : FullPageNoStart(rs[i].reply))
            => /\ Len(rs) = 1
               /\ LogEntry("warning", 227, id) \in log
               /\ ~(pc = "paging" /\ NetworkId(networks_list[net_idx]) = id)
               /\ id \in DOMAIN CurrentTable
               /\ \A day \in Days, type \in EventTypeNames :
                     Cell(CurrentTable, id, day, type)
                         = ValidCount(ReplyEvents(rs[1].reply), day, type)

\* N1 answered with a full page and no pageStartAt: one request, 1000 counted
C10_Witness ==
    /\ CountsReturned
    /\ Len(RequestsTo("N1")) = 1
    /\ FullPageNoStart(RequestsTo("N1")[1].reply)
    /\ LogEntry("warning", 227, "N1") \in log
    /\ Cell(ret.items, "N1", -1, "wpa_auth") = PerPage

\* the positions of the network list the call was given that carry id
PositionsOf(id) ==
    IF api.networks.ok
    THEN {i \in 1..Len(api.networks.body) :
             NetworkId(api.networks.body[i]) = id}
    ELSE {}

\* the ids of the networks listed after every position of id
IdsAfter(id) ==
    {NetworkId(api.networks.body[j]) :
        j \in {n \in 1..Len(api.networks.body) :
                  \A i \in PositionsOf(id) : n > i}} \ {NoId}

\* the pagination of network id is still running
Paginating(id) ==
    pc = "paging" /\ NetworkId(networks_list[net_idx]) = id

\* C11: when the k-th getNetworkEvents request of network N raised (API
\* error or another exception), it is the last request sent for N, the
\* table holds for N exactly the valid events of the pages 1..k-1, and once
\* the call has returned every network listed after N got its own requests
\* and is counted in full.
C11_FailureStopsOnlyThatNetwork ==
    \A id \in NetworkIds :
        LET rs == RequestsTo(id)
        IN  \A k \in 1..Len(rs) :
                ~rs[k].reply.ok =>
                    /\ k = Len(rs)
                    /\ ~Paginating(id)
                    /\ \A day \in Days, type \in EventTypeNames :
                          Cell(CurrentTable, id, day, type)
                              = ValidCount(EventsOfReplies(SubSeq(rs, 1, k - 1)),
                                           day, type)
                    /\ CountsReturned =>
                          \A later \in IdsAfter(id) :
                              /\ Len(RequestsTo(later)) >= 1
                              /\ \A day \in Days, type \in EventTypeNames :
                                    Cell(ret.items, later, day, type)
                                        = ValidCount(FetchedEvents(later),
                                                     day, type)

\* the second request of N1 raised after a first page of two events; the
\* two are counted, and N2, listed after N1, is counted as well
C11_Witness ==
    /\ CountsReturned
    /\ api.networks = Ok(<<Net1, Net2>>)
    /\ Len(RequestsTo("N1")) = 2
    /\ ~RequestsTo("N1")[2].reply.ok
    /\ Cell(ret.items, "N1", -1, "wpa_auth") = 2
    /\ Len(RequestsTo("N2")) >= 1
    /\ Cell(ret.items, "N2", -2, "other") = 1

\* the call asked for the network list and the request raised
ListNetworksFailed ==
    /\ call.op = "get_network_event_counts"
    /\ requests.list_networks = 1
    /\ ~api.networks.ok

\* C12 as claimed: when list_networks fails during get_network_event_counts
\* the call returns the empty table and raises nothing to its caller.
C12_ListFailureGivesEmptyTable ==
    ListNetworksFailed => (pc = "idle" /\ ret = PyDict(EmptyDict))

\* C13 as claimed: a call of get_network_event_counts with days_lookback
\* outside 1..90 returns the empty table at once and sends no request,
\* neither list_networks nor getNetworkEvents.
C13_OutOfRangeLookbackShortCircuits ==
    (call.op = "get_network_event_counts"
        /\ ~(1 <= call.days_lookback /\ call.days_lookback <= 90)) =>
        /\ pc = "idle"
        /\ ret = PyDict(EmptyDict)
        /\ requests = NoRequests

\* the sum of all counts of one network's part of the table
TotalCounted(table, id) ==
    IF id \notin DOMAIN table THEN 0
    ELSE LET by_day == [d \in DOMAIN table[id] |->
                           SumOver(table[id][d], DOMAIN table[id][d])]
         IN  SumOver(by_day, DOMAIN by_day)

\* the number of valid events of a list
RECURSIVE ValidEvents(_)
ValidEvents(runs) ==
    IF runs = <<>> THEN 0
    ELSE (IF IsValidEvent(Head(runs).ev) THEN Head(runs).n ELSE 0)
         + ValidEvents(Tail(runs))

\* the list holds a malformed event
HasMalformed(runs) == \E i \in 1..Len(runs) : ~IsValidEvent(runs[i].ev)

\* C14: once the call has returned, a network whose fetched events hold a
\* malformed one (not a record, occurredAt or type missing, occurredAt not a
\* timestamp) has, summed over all its days and types, as many counts as it
\* has valid events, each valid event standing before or after a malformed
\* one has its own cell counted, and the call has returned a table and
\* raised nothing.
C14_MalformedEventsOnlySkipped ==
    (call.op = "get_network_event_counts" /\ pc = "idle") =>
        \A id \in NetworkIds :
            LET evs == FetchedEvents(id)
            IN  HasMalformed(evs) =>
                    /\ ret.pytype = "dict"
                    /\ TotalCounted(ret.items, id)
                           = ValidEvents(evs)
                    /\ \A i \in 1..Len(evs) :
                          IsValidEvent(evs[i].ev) =>
                              Cell(ret.items, id,
                                   evs[i].ev.occurredAt.iso.date,
                                   evs[i].ev.type) >= evs[i].n

\* N1's only page is malformed, valid, malformed, valid: both valid events
\* are counted and nothing else is
C14_Witness ==
    /\ CountsReturned
    /\ Len(RequestsTo("N1")) = 1
    /\ FetchedEvents("N1") = MixedBatch
    /\ ~IsValidEvent(MixedBatch[1].ev) /\ IsValidEvent(MixedBatch[2].ev)
    /\ ~IsValidEvent(MixedBatch[3].ev) /\ IsValidEvent(MixedBatch[4].ev)
    /\ TotalCounted(ret.items, "N1") = 2
    /\ Cell(ret.items, "N1", -2, "other") = 1
    /\ Cell(ret.items, "N1", -1, "wpa_auth") = 1

\* the event-type request of network id was sent and raised
EventTypesFailed(id) ==
    api.event_types[id] \in {Raise("APIError"), Raise("Exception")}

\* the triple passes the category filter of the call (lines 137-146)
PassesFilter(t) ==
    Truthy(call.event_category) =>
        EventDefinition(t).category = call.event_category

\* C15: when the event-type request of one network raised (API error or
\* another exception), get_filtered_event_types still returns a catalog, and
\* it holds the definition of every triple each other network reported (of
\* the filtered category, when a filter is given), wherever the failing
\* network stands in the list.
C15_FailingNetworkIsSkipped ==
    \A bad \in NetworkIds :
        (call.op = "get_filtered_event_types" /\ EventTypesFailed(bad)) =>
            /\ ret.pytype = "list"
            /\ \A other \in NetworkIds \ {bad} :
                  \A t \in ReportedBy(other) :
                      PassesFilter(t) =>
                          EventDefinition(t) \in Range(ret.items)

\* N1, listed first, failed; N2, listed after it, reported two triples and
\* the unfiltered catalog holds both
C15_Witness ==
    /\ call.op = "get_filtered_event_types"
    /\ call.event_category = None
    /\ api.networks = Ok(<<Net1, Net2>>)
    /\ EventTypesFailed("N1")
    /\ Cardinality(ReportedBy("N2")) = 2
    /\ ret.pytype = "list"
    /\ Len(ret.items) = 2
    /\ \A t \in ReportedBy("N2") : EventDefinition(t) \in Range(ret.items)

\* the reply is a page without events: the key is missing or the list empty
EmptyPage(reply) == reply.ok /\ ListLen(ReplyEvents(reply)) = 0

\* occurred_after_dt of the call
WindowStart == OccurredAfterDt(call.now, call.days_lookback)

\* the reply is a page with events whose pageStartAt is a timestamp at or
\* before the window start
BoundaryPage(reply) ==
    /\ reply.ok
    /\ ListLen(ReplyEvents(reply)) > 0
    /\ "pageStartAt" \in DOMAIN reply.body
    /\ FromIsoFormat(reply.body.pageStartAt).ok
    /\ DtLeq(FromIsoFormat(reply.body.pageStartAt).body, WindowStart)

\* an event of a list is valid and lies at or before the window start
HasEventAtOrBeforeStart(runs) ==
    \E i \in 1..Len(runs) :
        /\ IsValidEvent(runs[i].ev)
        /\ DtLeq(runs[i].ev.occurredAt.iso, WindowStart)

\* C16: an empty page ends the pagination of its network, whatever its
\* pageStartAt, and the table holds for the network the events of the pages
\* before it; a page with events whose pageStartAt is at or before the window
\* start ends the pagination too, and the table holds the events of all
\* pages up to and including that one, those at or before the window start
\* as well.
C16_StopConditionsInOrder ==
    \A id \in NetworkIds :
        LET rs == RequestsTo(id)
        IN  \A k \in 1..Len(rs) :
                (EmptyPage(rs[k].reply) \/ BoundaryPage(rs[k].reply)) =>
                    /\ k = Len(rs)
                    /\ ~Paginating(id)
                    /\ \A day \in Days, type \in EventTypeNames :
                          Cell(CurrentTable, id, day, type)
                              = ValidCount(
                                    EventsOfReplies(SubSeq(rs, 1,
                                        IF EmptyPage(rs[k].reply)
                                        THEN k - 1 ELSE k)),
                                    day, type)

\* N1's second page has events, one of them before the window start, and a
\* pageStartAt before the window start: the pagination ended there and the
\* early event is counted; N2's only page is empty with a pageStartAt after
\* the window start, and N2 is not in the table
C16_Witness ==
    /\ CountsReturned
    /\ Len(RequestsTo("N1")) = 2
    /\ BoundaryPage(RequestsTo("N1")[2].reply)
    /\ HasEventAtOrBeforeStart(ReplyEvents(RequestsTo("N1")[2].reply))
    /\ Cell(ret.items, "N1", -2, "other") = 1
    /\ Len(RequestsTo("N2")) = 1
    /\ EmptyPage(RequestsTo("N2")[1].reply)
    /\ "pageStartAt" \in DOMAIN RequestsTo("N2")[1].reply.body
    /\ ~DtLeq(FromIsoFormat(RequestsTo("N2")[1].reply.body.pageStartAt).body,
              WindowStart)
    /\ "N2" \notin DOMAIN ret.items

\* C17: the first getNetworkEvents request of every network carries no
\* endingBefore, and every later request of the network carries the
\* pageStartAt of the reply to the request just before it; a cursor set for
\* one network is not carried over to the next.
C17_CursorFollowsPageStart ==
    \A id \in NetworkIds :
        LET rs == RequestsTo(id)
        IN  /\ Len(rs) >= 1 => rs[1].endingBefore = None
            /\ \A k \in 2..Len(rs) :
                  /\ rs[k - 1].reply.ok
                  /\ "pageStartAt" \in DOMAIN rs[k - 1].reply.body
                  /\ rs[k].endingBefore = rs[k - 1].reply.body.pageStartAt

\* N1 was asked twice, the second time with the pageStartAt of its first
\* page; N2, asked after it, starts again without a cursor
C17_Witness ==
    /\ api.networks = Ok(<<Net1, Net2>>)
    /\ Len(RequestsTo("N1")) = 2
    /\ RequestsTo("N1")[2].endingBefore = IsoText(-1, 1)
    /\ RequestsTo("N1")[1].reply.body.pageStartAt = IsoText(-1, 1)
    /\ Len(RequestsTo("N2")) >= 1
    /\ RequestsTo("N2")[1].endingBefore = None

\* the reply to a request sent with a cursor is a page with events whose
\* pageStartAt is later than the window start and not earlier than that
\* cursor: the server has not moved backward
StalledPage(r) ==
    /\ r.endingBefore # None
    /\ r.reply.ok
    /\ ListLen(ReplyEvents(r.reply)) > 0
    /\ "pageStartAt" \in DOMAIN r.reply.body
    /\ FromIsoFormat(r.reply.body.pageStartAt).ok
    /\ ~DtLeq(FromIsoFormat(r.reply.body.pageStartAt).body, WindowStart)
    /\ DtLeq(r.endingBefore.iso, FromIsoFormat(r.reply.body.pageStartAt).body)

\* C18 as claimed: the pagination of every network comes to an end whatever
\* the replies are; a page with events whose pageStartAt is later than the
\* window start and has not moved backward from the cursor it answers does
\* not keep the loop running: after such a reply the pagination of the
\* network is over and no request for the same page is left to send.
C18_StalledServerStopsLoop ==
    \A id \in NetworkIds :
        LET rs == RequestsTo(id)
        IN  \A k \in 1..Len(rs) :
                StalledPage(rs[k]) =>
                    ~(Paginating(id) /\ k = Len(rs)
                        /\ ending_before_timestamp = rs[k].endingBefore)

\* display_event_counts_graph has put its charts on the page
GraphDrawn ==
    call.op = "display_event_counts_graph" /\ ret.pytype = "page"

\* the sum over the networks of the table of their count for a day and type
TableTotal(table, day, type) ==
    SumOver([id \in DOMAIN table |-> Cell(table, id, day, type)],
            DOMAIN table)

\* C19 as claimed: for every charted event type whose 'Total Events' line
\* is drawn and every day of the axis, the value of the line equals the sum
\* over all networks of the count table of their count for that day and
\* type, also when two networks have one name or a network of the table is
\* not in the list fetched for the chart.
C19_TotalIsSumOverTable ==
    GraphDrawn =>
        \A t \in DOMAIN ret.charts :
            ret.charts[t].total_drawn =>
                \A i \in 1..Len(ret.axis) :
                    ret.charts[t].total[i]
                        = TableTotal(call.event_counts_data, ret.axis[i], t)

\* C20 as claimed: the returned catalog holds no two identical records, also
\* when the networks report triples that differ only in a field that one
\* leaves out and the other sets to that field's sentinel.
C20_NoIdenticalDefinitions ==
    CatalogReturned =>
        \A i, j \in 1..Len(ret.items) :
            ret.items[i] = ret.items[j] => i = j

\* the calendar days of the requested window: from the day of now minus
\* days_lookback days (lines 171-172) through the day the chart is drawn
WindowDays ==
    (call.counted_on - call.days_lookback)..call.today_date

\* C21 as claimed: every date key of the count table that lies in the
\* requested window, from the day of now minus days_lookback through today,
\* is a day of the chart's axis, so its counts are not lost when the series
\* are reindexed on the axis.
C21_WindowKeysOnAxis ==
    GraphDrawn =>
        \A id \in DOMAIN call.event_counts_data :
            \A date_str \in DOMAIN call.event_counts_data[id] :
                ToDate(date_str) \in WindowDays =>
                    \E i \in 1..Len(ret.axis) : ret.axis[i] = ToDate(date_str)

==========================================================================
